---- MODULE Spec2Model ----
(***************************************************************************)
(* TempWalletsNotifyBot: a Flask front end relaying notifications to a     *)
(* Telegram bot object.  Two variants of the program exist:                *)
(*   "webhook"  src/app.py           updates arrive on /telegram-webhook   *)
(*   "polling"  src/telegram_bot.py  updates are polled on a bot thread    *)
(* The telegram library is a black box: the state of bot_application.loop  *)
(* and the outcome of every platform call are chosen nondeterministically. *)
(***************************************************************************)
EXTENDS Naturals, Sequences, FiniteSets

VARIABLES
  variant,      \* which of the two programs runs
  tokenEnv,     \* TELEGRAM_BOT_TOKEN in the environment
  webhookEnv,   \* WEBHOOK_URL in the environment
  mainpc,       \* position of the main thread (module body, then __main__)
  botpc,        \* position of bot_thread (polling variant)
  TOKEN,        \* module-level TOKEN
  session,      \* bot_application
  handlers,     \* command names registered with add_handler
  webhookCalls, \* set_webhook calls that reached the platform
  loopState,    \* bot_application.loop
  ready,        \* callbacks scheduled on bot_application.loop, oldest first
  inflight,     \* bot operations started and not finished, with their context
  fut,          \* the concurrent future of each submission
  sendCalls,    \* bot.send_message invocations per request
  sendOutcome,  \* what the platform answered to the send of each request
  submitted,    \* requests in the order their coroutine was handed to the loop
  started,      \* requests in the order their coroutine began to run
  nreq,         \* HTTP requests received so far
  req,          \* the body of each request
  rpc,          \* position of each request thread
  resp,         \* HTTP status returned to each caller
  subLoop,      \* state of the loop when the request tried its hand-off
  invoked,      \* command handlers invoked for each update, in order
  replies,      \* replies each update's handler has issued, in order
  processed     \* how process_update ended for each update

vars == <<variant, tokenEnv, webhookEnv, mainpc, botpc, TOKEN, session, handlers,
          webhookCalls, loopState, ready, inflight, fut, sendCalls, sendOutcome,
          submitted, started, nreq, req, rpc, resp, subLoop, invoked, replies,
          processed>>

startupVars == <<variant, tokenEnv, webhookEnv, mainpc, botpc, TOKEN, session,
                 handlers, webhookCalls>>
loopVars == <<ready, inflight, fut, sendCalls, sendOutcome, submitted, started>>
updateVars == <<invoked, replies, processed>>
requestVars == <<nreq, req, rpc, resp, subLoop, updateVars>>

\* Number of HTTP requests a behaviour receives.
MaxRequests == 2

Requests == 1..MaxRequests

Variants == {"webhook", "polling"}

\* JSON field values: absent (None), the empty string, a non-empty value.
ChatIds == {"None", "", "482910"}
Texts == {"None", "", "Hello"}
Commands == {"start", "mychatid", "other"}

\* Who sends an update: the chat it comes from and the sender's first name.
Senders == {[chat_id |-> "482910", first_name |-> "Ava"],
            [chat_id |-> "77", first_name |-> ""]}

NoRequest == [kind |-> "none", chat_id |-> "None", message |-> "None", command |-> "none",
              first_name |-> "None"]

\* CommandHandler("start", start), CommandHandler("mychatid", my_chat_id)
RegisteredCommandsStartOnly == {"start"}

RegisteredCommands == {"start", "mychatid"}

\* process_update: the handler registered for the command of the update, if any.
DispatchOrStart(command, registry) == IF command \in registry THEN command ELSE "start"

Dispatch(command, registry) == IF command \in registry THEN command ELSE "none"

\* start: update.message.reply_html("Hi {user.mention_html()}! ...")
\* my_chat_id: update.message.reply_text("Hello {user_name}! ... `{chat_id}` ...")
HandlerReplyFirstChat(handler, update) ==
  IF handler = "start"
    THEN [to |-> "482910", text |-> "greeting", mention |-> update.first_name,
          chat_id |-> "None"]
    ELSE [to |-> "482910", text |-> "chat_id",
          mention |-> (IF update.first_name = "" THEN "User" ELSE update.first_name),
          chat_id |-> "482910"]

HandlerReply(handler, update) ==
  IF handler = "start"
    THEN [to |-> update.chat_id, text |-> "greeting", mention |-> update.first_name,
          chat_id |-> "None"]
    ELSE [to |-> update.chat_id, text |-> "chat_id",
          mention |-> (IF update.first_name = "" THEN "User" ELSE update.first_name),
          chat_id |-> update.chat_id]

\* telegram_webhook: return "ok" after the await; an exception becomes a 500.
AckStatusAlwaysOk(raised) == 200

AckStatus(raised) == IF raised THEN 500 ELSE 200

\* app.py ends the hand-off with .result(); telegram_bot.py does not.
WaitsForResultAlways(v) == TRUE

WaitsForResult(v) == v = "webhook"
NoFuture == [posts |-> 0, result |-> "none"]

\* Python truthiness of a JSON string field: None and "" are falsy.
Falsy(v) == v \in {"None", ""}

\* if not chat_id or not message_text: return ..., 400
MissingChatIdOnly(chat_id, message_text) == Falsy(chat_id)

Missing(chat_id, message_text) == Falsy(chat_id) \/ Falsy(message_text)

\* os.getenv("TELEGRAM_BOT_TOKEN") and the guard that follows it.
LoadedToken(v, env) ==
  IF v = "webhook"
    THEN (IF env = "set" THEN "real" ELSE IF env = "empty" THEN "" ELSE "None")
    ELSE (IF env = "set" THEN "real" ELSE IF env = "empty" THEN "" ELSE "YOUR_FALLBACK_DEV_TOKEN")

TokenRejected(v, tok) == v = "webhook" /\ Falsy(tok)

\* The loop runs its callbacks first in, first out.
DequeueLast(q) == [unit |-> q[Len(q)], rest |-> SubSeq(q, 1, Len(q) - 1)]

Dequeue(q) == [unit |-> Head(q), rest |-> Tail(q)]

\* A finished coroutine sets the result of the future made for it.
PostResultOldest(f, id, res) ==
  LET pending == {i \in DOMAIN f : f[i].posts = 0 /\ \E k \in 1..Len(submitted) : submitted[k] = i}
      first == IF pending = {} THEN id
               ELSE CHOOSE i \in pending : \A j \in pending : i <= j
  IN [f EXCEPT ![first] = [posts |-> @.posts + 1, result |-> res]]

PostResult(f, id, res) == [f EXCEPT ![id] = [posts |-> @.posts + 1, result |-> res]]

Init ==
  /\ variant \in Variants
  /\ tokenEnv \in {"absent", "empty", "set"}
  /\ webhookEnv \in {"absent", "set"}
  /\ mainpc = "token"
  /\ botpc = "none"
  /\ TOKEN = "None"
  /\ session = "none"
  /\ handlers = {}
  /\ webhookCalls = 0
  /\ loopState = "stopped"
  /\ ready = <<>>
  /\ inflight = {}
  /\ fut = [r \in Requests |-> NoFuture]
  /\ sendCalls = [r \in Requests |-> 0]
  /\ sendOutcome = [r \in Requests |-> "none"]
  /\ submitted = <<>>
  /\ started = <<>>
  /\ nreq = 0
  /\ req = [r \in Requests |-> NoRequest]
  /\ rpc = [r \in Requests |-> "idle"]
  /\ resp = [r \in Requests |-> 0]
  /\ subLoop = [r \in Requests |-> "none"]
  /\ invoked = [r \in Requests |-> <<>>]
  /\ replies = [r \in Requests |-> <<>>]
  /\ processed = [r \in Requests |-> "none"]

----
\* Startup: the module body, then the __main__ block.

LoadToken ==
  /\ mainpc = "token"
  /\ TOKEN' = LoadedToken(variant, tokenEnv)
  /\ mainpc' = IF TokenRejected(variant, LoadedToken(variant, tokenEnv))
                 THEN "failed" ELSE "build"
  /\ UNCHANGED <<variant, tokenEnv, webhookEnv, botpc, session, handlers, webhookCalls,
                 loopState>>
  /\ UNCHANGED loopVars
  /\ UNCHANGED requestVars

\* Application.builder().token(TOKEN).build(): the library may refuse an empty token.
BuildSession ==
  /\ mainpc = "build"
  /\ \E raises \in BOOLEAN :
       /\ raises => TOKEN = ""
       /\ session' = IF raises THEN "none" ELSE "built"
       /\ mainpc' = IF raises THEN "failed"
                    ELSE IF variant = "webhook" THEN "handlers" ELSE "initialize"
  /\ UNCHANGED <<variant, tokenEnv, webhookEnv, botpc, TOKEN, handlers, webhookCalls,
                 loopState>>
  /\ UNCHANGED loopVars
  /\ UNCHANGED requestVars

AddHandlers ==
  /\ mainpc = "handlers"
  /\ handlers' = RegisteredCommands
  /\ mainpc' = "initialize"
  /\ UNCHANGED <<variant, tokenEnv, webhookEnv, botpc, TOKEN, session, webhookCalls,
                 loopState>>
  /\ UNCHANGED loopVars
  /\ UNCHANGED requestVars

\* bot_application.initialize(): what the library does to its loop is its own.
Initialize ==
  /\ mainpc = "initialize"
  /\ loopState' \in (IF variant = "webhook" THEN {"stopped", "running"} ELSE {"stopped"})
  /\ mainpc' = "set_webhook"
  /\ UNCHANGED <<variant, tokenEnv, webhookEnv, botpc, TOKEN, session, handlers,
                 webhookCalls>>
  /\ UNCHANGED loopVars
  /\ UNCHANGED requestVars

\* set_telegram_webhook_async: if WEBHOOK_URL:
RegistersWebhookAlways(env) == TRUE

RegistersWebhook(env) == env = "set"

\* app.py: loop.run_until_complete(set_telegram_webhook_async()), exit(1) when it
\* raises.  telegram_bot.py: bot_application.updater.bot.set_webhook().
SetWebhook ==
  /\ mainpc = "set_webhook"
  /\ \E raises \in BOOLEAN :
       IF variant = "webhook"
         THEN IF RegistersWebhook(webhookEnv)
                THEN /\ webhookCalls' = webhookCalls + 1
                     /\ mainpc' = IF raises THEN "exited" ELSE "serving"
                ELSE /\ ~raises
                     /\ webhookCalls' = webhookCalls
                     /\ mainpc' = "serving"
         ELSE /\ webhookCalls' = webhookCalls
              /\ mainpc' = IF raises THEN "exited" ELSE "start_thread"
  /\ UNCHANGED <<variant, tokenEnv, webhookEnv, botpc, TOKEN, session, handlers,
                 loopState>>
  /\ UNCHANGED loopVars
  /\ UNCHANGED requestVars

\* bot_thread = threading.Thread(target=run_bot_polling, daemon=True); bot_thread.start()
StartBotThread ==
  /\ mainpc = "start_thread"
  /\ botpc' = "handlers"
  /\ mainpc' = "serving"
  /\ UNCHANGED <<variant, tokenEnv, webhookEnv, TOKEN, session, handlers, webhookCalls,
                 loopState>>
  /\ UNCHANGED loopVars
  /\ UNCHANGED requestVars

\* run_bot_polling: the two add_handler calls.
BotAddHandlers ==
  /\ botpc = "handlers"
  /\ handlers' = RegisteredCommands
  /\ botpc' = "run_polling"
  /\ UNCHANGED <<variant, tokenEnv, webhookEnv, mainpc, TOKEN, session, webhookCalls,
                 loopState>>
  /\ UNCHANGED loopVars
  /\ UNCHANGED requestVars

\* run_bot_polling: bot_application.run_polling(...) runs the loop, or raises and
\* ends bot_thread; the main thread is not told.
RunPolling ==
  /\ botpc = "run_polling"
  /\ \E raises \in BOOLEAN :
       /\ loopState' = IF raises THEN loopState ELSE "running"
       /\ botpc' = IF raises THEN "failed" ELSE "polling"
  /\ UNCHANGED <<variant, tokenEnv, webhookEnv, mainpc, TOKEN, session, handlers,
                 webhookCalls>>
  /\ UNCHANGED loopVars
  /\ UNCHANGED requestVars

----
\* Request threads of the Flask server, once app.run() serves.

Serving == mainpc = "serving"

\* send_telegram_notification: validation, then the hand-off to the loop.
Notify ==
  /\ Serving
  /\ nreq < MaxRequests
  /\ \E chat_id \in ChatIds, message_text \in Texts, raises \in BOOLEAN :
       LET r == nreq + 1 IN
       /\ nreq' = r
       /\ req' = [req EXCEPT ![r] = [kind |-> "notify", chat_id |-> chat_id,
                                     message |-> message_text, command |-> "none",
                                     first_name |-> "None"]]
       /\ IF Missing(chat_id, message_text)
            THEN /\ ~raises
                 /\ resp' = [resp EXCEPT ![r] = 400]
                 /\ rpc' = [rpc EXCEPT ![r] = "done"]
                 /\ UNCHANGED <<ready, submitted, subLoop>>
            ELSE IF raises
              THEN /\ resp' = [resp EXCEPT ![r] = 500]
                   /\ rpc' = [rpc EXCEPT ![r] = "done"]
                   /\ subLoop' = [subLoop EXCEPT ![r] = loopState]
                   /\ UNCHANGED <<ready, submitted>>
              ELSE /\ ready' = Append(ready, r)
                   /\ submitted' = Append(submitted, r)
                   /\ subLoop' = [subLoop EXCEPT ![r] = loopState]
                   /\ IF WaitsForResult(variant)
                        THEN /\ rpc' = [rpc EXCEPT ![r] = "waiting"]
                             /\ resp' = resp
                        ELSE /\ rpc' = [rpc EXCEPT ![r] = "done"]
                             /\ resp' = [resp EXCEPT ![r] = 200]
  /\ UNCHANGED startupVars
  /\ UNCHANGED <<loopState, inflight, fut, sendCalls, sendOutcome, started>>
  /\ UNCHANGED updateVars

\* app.py: .result() returns or raises once the future is done.
NotifyResult(r) ==
  /\ Serving
  /\ rpc[r] = "waiting"
  /\ fut[r].posts > 0
  /\ resp' = [resp EXCEPT ![r] = IF fut[r].result = "ok" THEN 200 ELSE 500]
  /\ rpc' = [rpc EXCEPT ![r] = "done"]
  /\ UNCHANGED startupVars
  /\ UNCHANGED loopState
  /\ UNCHANGED loopVars
  /\ UNCHANGED <<nreq, req, subLoop>>
  /\ UNCHANGED updateVars

\* process_update begins for update r in context ctx: the handler registered for
\* its command, if any, is invoked and issues its reply.
BeginUpdate(r, sender, command, ctx) ==
  LET update == [kind |-> "update", chat_id |-> sender.chat_id, message |-> "None",
                 command |-> command, first_name |-> sender.first_name]
      handler == Dispatch(command, handlers)
  IN /\ nreq' = r
     /\ req' = [req EXCEPT ![r] = update]
     /\ rpc' = [rpc EXCEPT ![r] = "processing"]
     /\ inflight' = inflight \cup {[unit |-> r, op |-> "process_update", ctx |-> ctx]}
     /\ IF handler = "none"
          THEN UNCHANGED <<invoked, replies>>
          ELSE /\ invoked' = [invoked EXCEPT ![r] = Append(@, handler)]
               /\ replies' = [replies EXCEPT ![r] = Append(@, HandlerReply(handler, update))]

\* app.py telegram_webhook: await bot_application.process_update(update), begun in
\* the context of the request itself.
WebhookBegin ==
  /\ Serving
  /\ variant = "webhook"
  /\ nreq < MaxRequests
  /\ \E sender \in Senders, command \in Commands :
       BeginUpdate(nreq + 1, sender, command, "request")
  /\ UNCHANGED startupVars
  /\ UNCHANGED <<loopState, ready, fut, sendCalls, sendOutcome, submitted, started,
                 resp, subLoop, processed>>

\* app.py telegram_webhook: process_update returns (then "ok") or raises; only a
\* handler that ran can have failed.
WebhookEnd(r) ==
  /\ Serving
  /\ rpc[r] = "processing"
  /\ [unit |-> r, op |-> "process_update", ctx |-> "request"] \in inflight
  /\ \E raises \in BOOLEAN :
       /\ raises => invoked[r] # <<>>
       /\ processed' = [processed EXCEPT ![r] = IF raises THEN "raised" ELSE "ok"]
       /\ resp' = [resp EXCEPT ![r] = AckStatus(raises)]
  /\ rpc' = [rpc EXCEPT ![r] = "done"]
  /\ inflight' = inflight \ {[unit |-> r, op |-> "process_update", ctx |-> "request"]}
  /\ UNCHANGED startupVars
  /\ UNCHANGED <<loopState, ready, fut, sendCalls, sendOutcome, submitted, started,
                 nreq, req, subLoop, invoked, replies>>

\* telegram_bot.py run_polling: an update fetched from the platform is processed on
\* the loop.
PollBegin ==
  /\ variant = "polling"
  /\ botpc = "polling"
  /\ loopState = "running"
  /\ nreq < MaxRequests
  /\ \E sender \in Senders, command \in Commands :
       BeginUpdate(nreq + 1, sender, command, "loop")
  /\ UNCHANGED startupVars
  /\ UNCHANGED <<loopState, ready, fut, sendCalls, sendOutcome, submitted, started,
                 resp, subLoop, processed>>

\* telegram_bot.py run_polling: the processing of a polled update ends.
PollEnd(r) ==
  /\ rpc[r] = "processing"
  /\ loopState = "running"
  /\ [unit |-> r, op |-> "process_update", ctx |-> "loop"] \in inflight
  /\ \E raises \in BOOLEAN :
       /\ raises => invoked[r] # <<>>
       /\ processed' = [processed EXCEPT ![r] = IF raises THEN "raised" ELSE "ok"]
  /\ rpc' = [rpc EXCEPT ![r] = "done"]
  /\ inflight' = inflight \ {[unit |-> r, op |-> "process_update", ctx |-> "loop"]}
  /\ UNCHANGED startupVars
  /\ UNCHANGED <<loopState, ready, fut, sendCalls, sendOutcome, submitted, started,
                 nreq, req, resp, subLoop, invoked, replies>>

----
\* bot_application.loop, when it runs.

\* The oldest callback runs: the coroutine starts and suspends in send_message.
LoopStart ==
  /\ loopState = "running"
  /\ ready # <<>>
  /\ LET d == Dequeue(ready) IN
       /\ ready' = d.rest
       /\ started' = Append(started, d.unit)
       /\ sendCalls' = [sendCalls EXCEPT ![d.unit] = @ + 1]
       /\ inflight' = inflight \cup {[unit |-> d.unit, op |-> "send_message", ctx |-> "loop"]}
  /\ UNCHANGED startupVars
  /\ UNCHANGED <<loopState, fut, sendOutcome, submitted>>
  /\ UNCHANGED requestVars

\* The platform answers a send; the coroutine ends and its future is set.
LoopFinish(r) ==
  /\ loopState = "running"
  /\ [unit |-> r, op |-> "send_message", ctx |-> "loop"] \in inflight
  /\ \E outcome \in {"ok", "error"} :
       /\ sendOutcome' = [sendOutcome EXCEPT ![r] = outcome]
       /\ fut' = PostResult(fut, r, outcome)
  /\ inflight' = inflight \ {[unit |-> r, op |-> "send_message", ctx |-> "loop"]}
  /\ UNCHANGED startupVars
  /\ UNCHANGED <<loopState, ready, sendCalls, submitted, started>>
  /\ UNCHANGED requestVars

\* app.run() returns when the server is interrupted and the process ends: nothing
\* follows it in __main__, bot_thread is a daemon thread, and no code stops the
\* loop or settles the work handed to it.
Shutdown ==
  /\ Serving
  /\ mainpc' = "stopped"
  /\ botpc' = IF botpc \in {"handlers", "run_polling", "polling"} THEN "killed" ELSE botpc
  /\ loopState' = "stopped"
  /\ UNCHANGED <<variant, tokenEnv, webhookEnv, TOKEN, session, handlers, webhookCalls>>
  /\ UNCHANGED loopVars
  /\ UNCHANGED requestVars

\* Every step of the program but the interruption of the server.
Step ==
  \/ LoadToken
  \/ BuildSession
  \/ AddHandlers
  \/ Initialize
  \/ SetWebhook
  \/ StartBotThread
  \/ BotAddHandlers
  \/ RunPolling
  \/ Notify
  \/ \E r \in Requests : NotifyResult(r)
  \/ WebhookBegin
  \/ \E r \in Requests : WebhookEnd(r)
  \/ PollBegin
  \/ \E r \in Requests : PollEnd(r)
  \/ LoopStart
  \/ \E r \in Requests : LoopFinish(r)

Next ==
  \/ Step
  \/ Shutdown

Spec == Init /\ [][Next]_vars

\* The loop, once running, keeps running its callbacks, the platform answers, and a
\* request thread whose future is done is scheduled.  Nothing obliges the server to
\* be interrupted.
FairSpec == Spec /\ WF_vars(Step)

----
\* Properties.

Range(q) == {q[i] : i \in 1..Len(q)}

IsNotify(r) == req[r].kind = "notify"

\* C1: a caller of the notification endpoint that was told success (200) is never
\* in a state where the send for its request has failed; no silent loss.
C1_NoSilentLoss ==
  \A r \in Requests : (IsNotify(r) /\ resp[r] = 200) => sendOutcome[r] # "error"

\* C2: a notification request whose chat_id or message is missing or empty is
\* answered 400 at once, and nothing of it reaches the loop: it is never handed
\* over, no future is set for it and send_message is never invoked for it.
C2_InvalidRejected ==
  \A r \in Requests :
    (IsNotify(r) /\ (req[r].chat_id \in {"None", ""} \/ req[r].message \in {"None", ""}))
      => /\ rpc[r] = "done"
         /\ resp[r] = 400
         /\ r \notin Range(submitted)
         /\ r \notin Range(ready)
         /\ subLoop[r] = "none"
         /\ sendCalls[r] = 0
         /\ fut[r].posts = 0

C2_Witness ==
  \E r \in Requests :
    /\ IsNotify(r)
    /\ req[r].chat_id = "482910"
    /\ req[r].message \in {"None", ""}
    /\ resp[r] = 400
    /\ loopState = "running"

\* C3: at most one bot operation (send_message or process_update) is in flight at
\* any time.
C3_OneInFlight == Cardinality(inflight) <= 1

\* C4: every bot operation in flight runs on the bot's event loop, never in the
\* context of an HTTP request.
C4_OnlyOnLoop == \A o \in inflight : o.ctx = "loop"

\* C5: a request that tries its hand-off while the loop is not running has
\* returned, with an error; it is not left waiting for a future no loop will set.
C5_UnavailableNeverBlocks ==
  \A r \in Requests : subLoop[r] = "stopped" => (rpc[r] = "done" /\ resp[r] = 500)

\* C6: every request thread that waits for the result of its submission
\* eventually returns to its caller, unless the process is shut down first.
C6_EveryWaitEnds ==
  \A r \in Requests : (rpc[r] = "waiting") ~> (rpc[r] = "done" \/ mainpc = "stopped")

\* A caller that waited for its future and has returned.
Observed(r) == variant = "webhook" /\ r \in Range(submitted) /\ rpc[r] = "done"

C8_StartsInSubmissionOrder ==
  /\ Len(started) <= Len(submitted)
  /\ \A i \in 1..Len(started) : started[i] = submitted[i]

C8_Witness ==
  /\ Len(started) >= 2
  /\ Len(submitted) = Len(started)
  /\ Cardinality(inflight) >= 2

\* C9: a send that the platform rejected is reported to the caller of that request
\* as an error once the caller has returned, and the loop keeps running for as long
\* as the server serves.
C9_ErrorReachesCaller ==
  \A r \in Requests :
    sendOutcome[r] = "error" =>
      /\ Serving => loopState = "running"
      /\ rpc[r] = "done" => resp[r] = 500

\* C10: the bot application is built only from a token the environment supplied:
\* never when TELEGRAM_BOT_TOKEN is absent or empty.
C10_NoSessionWithoutToken == session = "built" => tokenEnv = "set"

\* C11: the HTTP server serves requests only once the bot's event loop runs: the
\* scheduler has reached Ready before any request handler can accept a submission.
C11_ServesOnlyWhenLoopRuns == Serving => loopState = "running"

\* A step of startup has failed: the token was refused, the bot could not be built,
\* set_webhook raised, or run_polling raised in bot_thread.
StartupFailed == mainpc \in {"failed", "exited"} \/ botpc = "failed"

\* C12: when a step of startup has failed, the HTTP server is not serving and no
\* request has been received.
C12_FailedStartupNeverServes == StartupFailed => (~Serving /\ nreq = 0)

FieldsMissing(r) == req[r].chat_id \in {"None", ""} \/ req[r].message \in {"None", ""}

\* C14: the status a notification caller has received is decided by what happened
\* to its request: 200 exactly when its send succeeded, 400 exactly when chat_id or
\* message was missing, 500 exactly when the hand-off or the send failed.
C14_StatusMatchesOutcome ==
  \A r \in Requests :
    (IsNotify(r) /\ rpc[r] = "done") =>
      /\ resp[r] = 200 <=> sendOutcome[r] = "ok"
      /\ resp[r] = 400 <=> FieldsMissing(r)
      /\ resp[r] = 500 <=> (~FieldsMissing(r) /\ sendOutcome[r] # "ok")

\* C16: once the process has shut down, every submission handed to the loop has
\* been completed (a result or an error posted) and no caller is left waiting.
C16_ShutdownCompletesAll ==
  mainpc = "stopped" =>
    \A r \in Requests :
      /\ r \in Range(submitted) => fut[r].posts = 1
      /\ rpc[r] # "waiting"

IsUpdate(r) == req[r].kind = "update"

\* C15: an update whose command is "start" or "mychatid" has had exactly one handler
\* invoked, the one of its command, and exactly one reply issued, addressed to the
\* chat the update came from; the "start" reply mentions the sender and the
\* "mychatid" reply shows the identifier of that chat.
C15_OneHandlerOneReply ==
  \A r \in Requests :
    (IsUpdate(r) /\ req[r].command \in {"start", "mychatid"}) =>
      /\ invoked[r] = <<req[r].command>>
      /\ Len(replies[r]) = 1
      /\ replies[r][1].to = req[r].chat_id
      /\ req[r].command = "start" =>
           (replies[r][1].text = "greeting" /\ replies[r][1].mention = req[r].first_name)
      /\ req[r].command = "mychatid" =>
           (replies[r][1].text = "chat_id" /\ replies[r][1].chat_id = req[r].chat_id)

C15_Witness ==
  \E a, b \in Requests :
    /\ IsUpdate(a) /\ req[a].command = "start" /\ req[a].chat_id = "482910"
    /\ IsUpdate(b) /\ req[b].command = "mychatid" /\ req[b].chat_id = "77"
    /\ processed[a] = "ok" /\ processed[b] = "ok"
    /\ replies[b][1].chat_id = "77"

\* C17: an update whose command has no registered handler invokes no handler and
\* issues no reply, its processing never raises, and in the webhook variant its
\* delivery is acknowledged with 200 once processed.
C17_UnknownCommandIgnored ==
  \A r \in Requests :
    (IsUpdate(r) /\ req[r].command \notin {"start", "mychatid"}) =>
      /\ invoked[r] = <<>>
      /\ replies[r] = <<>>
      /\ sendCalls[r] = 0
      /\ processed[r] # "raised"
      /\ (rpc[r] = "done" /\ variant = "webhook") => resp[r] = 200

C17_Witness ==
  \E r \in Requests :
    /\ IsUpdate(r)
    /\ req[r].command = "other"
    /\ variant = "webhook"
    /\ rpc[r] = "done"
    /\ resp[r] = 200

\* The bot can process updates: the server of the webhook variant serves, or the
\* loop runs.
CanProcessUpdates == (variant = "webhook" /\ Serving) \/ loopState = "running"

\* C18: both "start" and "mychatid" are registered before any update can be or has
\* been processed, and the set of registered commands never changes once filled.
C18_RegistryFixedBeforeUpdates ==
  /\ [](CanProcessUpdates => handlers = {"start", "mychatid"})
  /\ []((\E r \in Requests : IsUpdate(r)) => handlers = {"start", "mychatid"})
  /\ [][handlers = {"start", "mychatid"} => handlers' = handlers]_vars

C18_Witness ==
  /\ handlers = {"start", "mychatid"}
  /\ \E r \in Requests : IsUpdate(r) /\ processed[r] = "ok" /\ variant = "polling"

\* C19: in the webhook variant a delivery is acknowledged (200) only after
\* process_update has run to completion without raising; a delivery whose
\* processing raised is answered 500.
C19_AckAfterProcessing ==
  \A r \in Requests :
    (IsUpdate(r) /\ variant = "webhook") =>
      /\ resp[r] = 200 =>
           (processed[r] = "ok"
            /\ [unit |-> r, op |-> "process_update", ctx |-> "request"] \notin inflight)
      /\ processed[r] = "raised" => resp[r] = 500
      /\ rpc[r] = "processing" => resp[r] = 0

C19_Witness ==
  \E a, b \in Requests :
    /\ IsUpdate(a) /\ IsUpdate(b) /\ variant = "webhook"
    /\ processed[a] = "raised" /\ resp[a] = 500
    /\ processed[b] = "ok" /\ resp[b] = 200

\* C20: in the polling variant a valid notification whose hand-off did not raise
\* has returned 200 to its caller, whatever the state or the outcome of its send,
\* and no request thread ever waits for the loop.
C20_PollingReturnsAtOnce ==
  variant = "polling" =>
    \A r \in Requests :
      /\ rpc[r] # "waiting"
      /\ r \in Range(submitted) => (rpc[r] = "done" /\ resp[r] = 200)

C20_Witness ==
  \E a, b \in Requests :
    /\ variant = "polling"
    /\ resp[a] = 200 /\ sendOutcome[a] = "error"
    /\ resp[b] = 200 /\ sendOutcome[b] = "none" /\ b \in Range(submitted)

====
